---- MODULE Spec2Model ----
(***************************************************************************)
(* A model of the DQN training code of rlalgs:                             *)
(*   - DQNReplayBuffer (src/rlalgs/dqn/dqn.py), a circular store of        *)
(*     transitions with uniform sampling;                                  *)
(*   - the epsilon schedule of get_action (np.linspace + cut-off);         *)
(*   - the TD target expression;                                           *)
(*   - the trainer dqn() of src/rlalgs/algos/dqn/dqn.py: configuration     *)
(*     check, set-up, epoch loop, update and target-network copy (Spec,    *)
(*     and SpecFair with the fairness of a running program);               *)
(*   - the legacy trainer dqn() of src/rlalgs/dqn/dqn.py, with its loop    *)
(*     per episode (SpecOld);                                              *)
(*   - two calls of dqn() in one process, which share the module-level     *)
(*     step counter total_t (SpecTwo).                                     *)
(*                                                                         *)
(* Reals are modelled exactly as rationals <<numerator, denominator>> or   *)
(* as integers in units of a fixed denominator; float32/float64 rounding   *)
(* is not modelled.                                                        *)
(***************************************************************************)
EXTENDS Integers, Sequences, FiniteSets, TLC

VARIABLES
    \* ---- replay buffer
    buf,        \* the DQNReplayBuffer object (its five arrays, ptr, size, capacity)
    hist,       \* ghost, kept under SpecBuf: every transition passed to store, in call order
    ret,        \* the value returned (or exception raised) by the last buffer call
    \* ---- exploration schedule
    sched,      \* [start_steps, epsilon]: the arguments the schedule is built from
    total_t,    \* the module-level step counter handed to get_action
    eps,        \* eps computed by the last get_action call, a rational <<num, den>>
    eps_prev,   \* eps computed by the call before that
    \* ---- TD target
    td,         \* inputs and output of the target expression for one batch
    \* ---- the trainer dqn()
    cfg,          \* the arguments dqn() was called with
    pc,           \* where dqn() is
    env,          \* the environment: whether it exists, was reset, was stepped; its state;
                  \* ghost: the number of env.step calls so far
    made,         \* which of the networks and the buffer have been created;
                  \* ghost: how many times the initial copy of line 109 has run
    q_model,      \* weights of the main network
    q_model_targ, \* weights of the target network
    epoch,        \* i of "for i in range(epochs)"
    t,            \* train_one_epoch: steps taken in this epoch
    loc,          \* train_one_epoch: o, ep_len, ep_ret, ep_loss and the epoch_ep_* lists;
                  \* ghost: dones, how often env.step returned d = True in this epoch,
                  \* and copies, how often update copied the weights in this epoch
    step,         \* ghost: what the last loop iteration did
    since_copy,   \* ghost: update calls since update last copied (-1: it never has)
    logged        \* the row handed to the logger, until it is dumped

BufVars   == <<buf, hist, ret>>
EpsVars   == <<sched, total_t, eps, eps_prev>>
TdVars    == <<td>>
TrainVars == <<cfg, pc, env, made, q_model, q_model_targ, epoch, t, loc, step,
               since_copy, logged>>
vars      == <<buf, hist, ret, sched, total_t, eps, eps_prev, td, cfg, pc, env,
               made, q_model, q_model_targ, epoch, t, loc, step, since_copy, logged>>

(***************************************************************************)
(* Bounds of the model.                                                    *)
(***************************************************************************)
MaxCap    == 4   \* largest buffer capacity tried
MaxStores == 6   \* longest sequence of store calls tried
MaxBatch  == 2   \* largest num_samples tried
MaxStartSteps == 4   \* longest annealing period tried
MaxT      == 6   \* number of get_action calls followed
EpsDen    == 4   \* epsilon is tried in steps of 1/EpsDen
GammaDen  == 2   \* gamma is tried in steps of 1/GammaDen
MaxEpochSteps == 3   \* largest epoch_steps tried
MaxFreq   == 4   \* largest target_update_freq tried
Epochs    == 2   \* number of epochs run
PolyakDen == 2   \* polyak is tried as 0 and as 1/PolyakDen

Min(x, y) == IF x <= y THEN x ELSE y

(***************************************************************************)
(* Values.  A transition is (o, a, r, o_prime, d); d is stored as 0 or 1   *)
(* (done_buf is a float32 array).                                          *)
(***************************************************************************)
Actions == {0, 1}
Dones   == {0, 1}

None == [kind |-> "None"]

(***************************************************************************)
(* DQNReplayBuffer                                                         *)
(***************************************************************************)
\* __init__: np.zeros arrays of length capacity, ptr = size = 0
DQNReplayBuffer(capacity) ==
    [obs_buf       |-> [i \in 0..(capacity - 1) |-> 0],
     act_buf       |-> [i \in 0..(capacity - 1) |-> 0],
     rew_buf       |-> [i \in 0..(capacity - 1) |-> 0],
     obs_prime_buf |-> [i \in 0..(capacity - 1) |-> 0],
     done_buf      |-> [i \in 0..(capacity - 1) |-> 0],
     ptr           |-> 0,
     size          |-> 0,
     capacity      |-> capacity]

\* a plausible slip: the write cursor is advanced without wrapping only at the end
next_ptr_late(b) == IF b.ptr + 1 > b.capacity - 1 THEN b.capacity - 1 ELSE b.ptr + 1

\* self.ptr = (self.ptr+1) % self.capacity
next_ptr(b) == (b.ptr + 1) % b.capacity

\* a plausible slip: size counts every store
next_size_unbounded(b) == b.size + 1

\* a plausible slip: store forgets to count the transition it wrote
next_size_stuck(b) == b.size

\* self.size = min(self.size+1, self.capacity)
next_size(b) == Min(b.size + 1, b.capacity)

\* a plausible slip: the observation and the next observation change places
store_swapped(b, o, a, r, o_prime, d) ==
    [b EXCEPT !.obs_buf[b.ptr]       = o_prime,
              !.act_buf[b.ptr]       = a,
              !.rew_buf[b.ptr]       = r,
              !.obs_prime_buf[b.ptr] = o,
              !.done_buf[b.ptr]      = d,
              !.ptr                  = next_ptr(b),
              !.size                 = next_size(b)]

\* store(o, a, r, o_prime, d)
store(b, o, a, r, o_prime, d) ==
    [b EXCEPT !.obs_buf[b.ptr]       = o,
              !.act_buf[b.ptr]       = a,
              !.rew_buf[b.ptr]       = r,
              !.obs_prime_buf[b.ptr] = o_prime,
              !.done_buf[b.ptr]      = d,
              !.ptr                  = next_ptr(b),
              !.size                 = next_size(b)]

\* a plausible slip: indices drawn over the whole allocation
choice_range_capacity(b) == 0..(b.capacity - 1)

\* np.random.choice(self.size, ...): the population is arange(self.size)
choice_range(b) == 0..(b.size - 1)

\* the index vectors np.random.choice(self.size, num_samples) can return
sample_idxs(b, num_samples) == [1..num_samples -> choice_range(b)]

\* a plausible slip: sample takes a row it draws out of the buffer
sample_self_drained(b, idxs) ==
    IF Len(idxs) > 0 THEN [b EXCEPT !.size = b.size - 1] ELSE b

\* the buffer object once sample has returned: sample reads self.size and
\* the five arrays and assigns no attribute of self
sample_self(b, idxs) == b

\* the dict of fancy-indexed arrays sample returns, for one index vector
sample_batch(b, idxs) ==
    [o       |-> [k \in 1..Len(idxs) |-> b.obs_buf[idxs[k]]],
     a       |-> [k \in 1..Len(idxs) |-> b.act_buf[idxs[k]]],
     r       |-> [k \in 1..Len(idxs) |-> b.rew_buf[idxs[k]]],
     o_prime |-> [k \in 1..Len(idxs) |-> b.obs_prime_buf[idxs[k]]],
     d       |-> [k \in 1..Len(idxs) |-> b.done_buf[idxs[k]]]]

\* one stored transition, read back from slot i of the five arrays
Row(b, i) ==
    [o |-> b.obs_buf[i], a |-> b.act_buf[i], r |-> b.rew_buf[i],
     o_prime |-> b.obs_prime_buf[i], d |-> b.done_buf[i]]

\* row k of a returned batch
BatchRow(batch, k) ==
    [o |-> batch.o[k], a |-> batch.a[k], r |-> batch.r[k],
     o_prime |-> batch.o_prime[k], d |-> batch.d[k]]

Transition(o, a, r, o_prime, d) ==
    [o |-> o, a |-> a, r |-> r, o_prime |-> o_prime, d |-> d]

(***************************************************************************)
(* The buffer driven directly: a fresh buffer of any capacity, then any    *)
(* sequence of store and sample calls.  The k-th store carries reward k,   *)
(* so that every stored transition is distinguishable.                     *)
(***************************************************************************)
TrainIdle ==
    /\ cfg = None /\ pc = "idle" /\ env = None /\ made = None
    /\ q_model = None /\ q_model_targ = None /\ epoch = 0 /\ t = 0
    /\ loc = None /\ step = None /\ since_copy = -1 /\ logged = None

EpsIdle == /\ sched = [start_steps |-> 0, epsilon |-> <<0, 1>>] /\ total_t = 0 /\ eps = None /\ eps_prev = None
TdIdle  == td = None

InitBuf ==
    /\ \E capacity \in 1..MaxCap : buf = DQNReplayBuffer(capacity)
    /\ hist = <<>>
    /\ ret = None
    /\ EpsIdle
    /\ TdIdle
    /\ TrainIdle

BufStore ==
    /\ Len(hist) < MaxStores
    /\ \E d \in Dones :
         LET r       == Len(hist) + 1
             o       == r % 2
             a       == (r + d) % 2
             o_prime == 1 - o
         IN /\ buf' = store(buf, o, a, r, o_prime, d)
            /\ hist' = Append(hist, Transition(o, a, r, o_prime, d))
    /\ ret' = None
    /\ UNCHANGED <<EpsVars, TdVars, TrainVars>>

\* sample(num_samples) on a buffer holding at least one transition, or with
\* nothing to draw
BufSample ==
    /\ \E n \in 0..MaxBatch :
         /\ buf.size >= 1 \/ n = 0
         /\ \E idxs \in sample_idxs(buf, n) :
              /\ ret' = [kind |-> "batch", n |-> n, idxs |-> idxs,
                         batch |-> sample_batch(buf, idxs)]
              /\ buf' = sample_self(buf, idxs)
    /\ UNCHANGED <<hist, EpsVars, TdVars, TrainVars>>

\* sample(num_samples) on an empty buffer: np.random.choice(0, n) raises
\* ValueError (for n = 0 only in the numpy releases that refuse an empty
\* population outright; the others return the empty batch of BufSample)
BufSampleEmpty ==
    /\ buf.size = 0
    /\ \E n \in 0..MaxBatch : ret' = [kind |-> "ValueError", n |-> n]
    /\ UNCHANGED <<buf, hist, EpsVars, TdVars, TrainVars>>

NextBuf == BufStore \/ BufSample \/ BufSampleEmpty

SpecBuf == InitBuf /\ [][NextBuf]_vars

(***************************************************************************)
(* Exact rationals <<numerator, denominator>>, denominator > 0.            *)
(***************************************************************************)
Rat(n, d)   == <<n, d>>
RatEq(x, y) == x[1] * y[2] = y[1] * x[2]
RatLe(x, y) == x[1] * y[2] <= y[1] * x[2]
RatLt(x, y) == x[1] * y[2] < y[1] * x[2]
One         == Rat(1, 1)

(***************************************************************************)
(* The exploration schedule: epsilon_schedule = np.linspace(1, epsilon,    *)
(* start_steps), read by get_action.                                       *)
(***************************************************************************)
\* np.linspace(start, stop, num): num evenly spaced samples over [start, stop],
\* both ends included; element i (from 0) is start + i * (stop - start)/(num - 1),
\* [start] alone for num = 1, empty for num = 0.  Element i is at index i + 1.
linspace(start, stop, num) ==
    [k \in 1..num |->
        IF num = 1 THEN start
        ELSE Rat(start[1] * stop[2] * (num - 1)
                     + (k - 1) * (stop[1] * start[2] - start[1] * stop[2]),
                 start[2] * stop[2] * (num - 1))]

\* np.linspace(start, stop, num, endpoint=False): the step is (stop - start)/num
linspace_open(start, stop, num) ==
    [k \in 1..num |->
        Rat(start[1] * stop[2] * num
                + (k - 1) * (stop[1] * start[2] - start[1] * stop[2]),
            start[2] * stop[2] * num)]

\* a plausible slip: the stop value is never reached inside the schedule
epsilon_schedule_open(epsilon, start_steps) == linspace_open(One, epsilon, start_steps)

\* a plausible slip: the arguments swapped, so that the schedule rises
epsilon_schedule_rising(epsilon, start_steps) == linspace(epsilon, One, start_steps)

\* epsilon_schedule = np.linspace(1, epsilon, start_steps)
epsilon_schedule(epsilon, start_steps) == linspace(One, epsilon, start_steps)

\* get_action: eps = epsilon if t >= start_steps else epsilon_schedule[t]
\* (tt is get_action's argument t)
eps_at(epsilon, start_steps, tt) ==
    IF tt >= start_steps THEN epsilon
    ELSE epsilon_schedule(epsilon, start_steps)[tt + 1]

BufIdle == /\ buf = DQNReplayBuffer(1) /\ hist = <<>> /\ ret = None

\* the schedule for any annealing period and any final epsilon (epsilon may
\* exceed 1 by one notch), the step counter at 0
InitEps ==
    /\ sched \in [start_steps : 0..MaxStartSteps,
                  epsilon     : {Rat(n, EpsDen) : n \in 0..(EpsDen + 1)}]
    /\ total_t = 0
    /\ eps = None
    /\ eps_prev = None
    /\ BufIdle
    /\ TdIdle
    /\ TrainIdle

\* one get_action call: eps is computed for the current step counter, which
\* the caller then advances by one
EpsGetAction ==
    /\ total_t < MaxT
    /\ eps' = eps_at(sched.epsilon, sched.start_steps, total_t)
    /\ eps_prev' = eps
    /\ total_t' = total_t + 1
    /\ UNCHANGED <<sched, BufVars, TdVars, TrainVars>>

NextEps == EpsGetAction

SpecEps == InitEps /\ [][NextEps]_vars

(***************************************************************************)
(* The TD target: target = rew_ph + gamma*(1-done_ph)*q_pi_targ, one entry *)
(* per row of the batch.                                                   *)
(***************************************************************************)
Rewards == {-1, 2}
QVals   == {-1, 3}

\* q_pi_targ, as q_network builds it for the target network: the largest
\* Q-value of the next observation over the actions
q_pi(q_vals) == CHOOSE m \in {q_vals[a] : a \in DOMAIN q_vals} :
                    \A a \in DOMAIN q_vals : q_vals[a] <= m

\* a plausible slip (the variant left commented out in the older trainer):
\* the bootstrap term is always added
target_unmasked(rew, gamma, done, q_pi_targ) ==
    [k \in 1..Len(rew) |->
        Rat(rew[k] * gamma[2] + gamma[1] * q_pi_targ[k], gamma[2])]

\* target = rew_ph + gamma*(1-done_ph)*q_pi_targ
target(rew, gamma, done, q_pi_targ) ==
    [k \in 1..Len(rew) |->
        Rat(rew[k] * gamma[2] + gamma[1] * (1 - done[k]) * q_pi_targ[k], gamma[2])]

\* a sampled batch of 1..MaxBatch rows (rewards, done flags), the target
\* network's Q-values for each row's next observation, and gamma
InitTd ==
    /\ \E n \in 1..MaxBatch :
        \E rew \in [1..n -> Rewards], done \in [1..n -> Dones],
           q \in [1..n -> [Actions -> QVals]], g \in 0..GammaDen :
            td = [kind |-> "fed", gamma |-> Rat(g, GammaDen),
                  rew |-> rew, done |-> done, q_vals_targ |-> q, target |-> <<>>]
    /\ BufIdle
    /\ EpsIdle
    /\ TrainIdle

\* the target tensor is evaluated for the batch fed
TdEvaluate ==
    /\ td.kind = "fed"
    /\ td' = [td EXCEPT !.kind = "evaluated",
                        !.target = target(td.rew, td.gamma, td.done,
                                          [k \in 1..Len(td.rew) |-> q_pi(td.q_vals_targ[k])])]
    /\ UNCHANGED <<BufVars, EpsVars, TrainVars>>

NextTd == TdEvaluate

SpecTD == InitTd /\ [][NextTd]_vars

(***************************************************************************)
(* The trainer dqn() of src/rlalgs/algos/dqn/dqn.py.                       *)
(*                                                                         *)
(* The environment, the networks' forward pass and the optimizer are       *)
(* external: the environment's observation is the number of steps since    *)
(* its last reset, its reward and done flag are arbitrary; the action is   *)
(* arbitrary (random or greedy); the optimizer leaves arbitrary main       *)
(* weights.  preprocess_fn leaves the observation as it is; rendering and   *)
(* the final rollout (render, render_last) are off.                        *)
(***************************************************************************)
Params     == {"kernel"}
WVals      == {0, 1}
Weights    == [Params -> WVals]
EnvRewards == {2}
Losses     == {1}

\* the arguments that are the same in every run of the model
Profile == [replay_size |-> 2, batch_size |-> 1, start_steps |-> 2,
            epsilon |-> Rat(1, 4)]

NaN == Rat(0, 0)

RECURSIVE Sum(_)
Sum(seq) == IF seq = <<>> THEN 0 ELSE Head(seq) + Sum(Tail(seq))

RECURSIVE RatSum(_)
RatSum(seq) ==
    IF seq = <<>> THEN Rat(0, 1)
    ELSE LET x == Head(seq)
             y == RatSum(Tail(seq))
         IN Rat(x[1] * y[2] + y[1] * x[2], x[2] * y[2])

\* np.mean of a list of numbers (nan for the empty list)
mean(seq) == IF seq = <<>> THEN NaN ELSE Rat(Sum(seq), Len(seq))

\* np.mean of a list of means
mean_of_means(seq) ==
    IF seq = <<>> THEN NaN ELSE Rat(RatSum(seq)[1], RatSum(seq)[2] * Len(seq))

\* a plausible slip: the check is not made (as when asserts are stripped)
assert_skipped(c) == TRUE

\* assert target_update_freq <= epoch_steps
assert_holds(c) == c.target_update_freq <= c.epoch_steps

\* a plausible slip: any action space is accepted
isinstance_any(c) == TRUE

\* isinstance(env.action_space, Discrete)
isinstance_Discrete(c) == c.discrete

\* a plausible slip: the call copies nothing
copy_network_weights_skipped(main, targ) == targ

\* copy_network_weights: q_model_targ.set_weights(q_model.get_weights())
copy_network_weights(main, targ) == main

\* update: the condition under which the target network is overwritten
should_copy(tt, c) ==
    /\ tt > 0
    /\ \/ c.target_update_freq = 1
       \/ tt % (c.target_update_freq - 1) = 0

\* a plausible slip: get_action is handed the epoch's own counter t
schedule_index_epoch(tt, tt_total) == tt

\* train_one_epoch: a = get_action(o, total_t)
schedule_index(tt, tt_total) == tt_total

\* a plausible slip: the loop goes on until t has passed the budget
budget_exhausted_late(tt, c) == tt > c.epoch_steps

\* train_one_epoch: if t >= epoch_steps
budget_exhausted(tt, c) == tt >= c.epoch_steps

\* a plausible slip: the episode in progress is left out at the end of the epoch
epoch_end_lens_dropped(lens, ep_len) == lens

\* train_one_epoch, at the break: epoch_ep_lens.append(ep_len)
epoch_end_lens(lens, ep_len) == Append(lens, ep_len)

\* a plausible slip: the optimizer's updates reach the target's weights too
q_train_fn_shared(main, targ, w) == [main |-> w, targ |-> w]

\* q_train_fn: K.function with updates=q_updates, which the optimizer builds
\* over q_model.trainable_weights; w are the main weights it leaves behind
q_train_fn(main, targ, w) == [main |-> w, targ |-> targ]

\* network_diff: the sum of the absolute differences of the weights
RECURSIVE network_diff_over(_, _, _)
network_diff_over(ps, main, targ) ==
    IF ps = {} THEN 0
    ELSE LET p == CHOOSE x \in ps : TRUE
             diff == IF main[p] >= targ[p] THEN main[p] - targ[p]
                     ELSE targ[p] - main[p]
         IN diff + network_diff_over(ps \ {p}, main, targ)

network_diff(main, targ) == network_diff_over(Params, main, targ)

NoWeights == [p \in Params |-> 0]
NoLoc     == [kind |-> "none"]
NoStep    == [kind |-> "none"]

InitTrain ==
    /\ \E es \in 1..MaxEpochSteps, f \in 1..MaxFreq, pk \in {0, 1},
          disc \in BOOLEAN :
          cfg = [epoch_steps |-> es, target_update_freq |-> f, epochs |-> Epochs,
                 polyak |-> Rat(pk, PolyakDen), discrete |-> disc,
                 replay_size |-> Profile.replay_size,
                 batch_size |-> Profile.batch_size,
                 start_steps |-> Profile.start_steps,
                 epsilon |-> Profile.epsilon]
    /\ pc = "assert"
    /\ env = [made |-> FALSE, was_reset |-> FALSE, was_stepped |-> FALSE, obs |-> 0,
             steps |-> 0]
    /\ made = [nets |-> FALSE, buf |-> FALSE, inits |-> 0]
    /\ q_model = NoWeights
    /\ q_model_targ = NoWeights
    /\ epoch = 0
    /\ t = 0
    /\ loc = NoLoc
    /\ step = NoStep
    /\ since_copy = -1
    /\ logged = None
    /\ BufIdle
    /\ sched = [start_steps |-> Profile.start_steps, epsilon |-> Profile.epsilon]
    /\ total_t = 0
    /\ eps = None
    /\ eps_prev = None
    /\ TdIdle

\* line 57: the assert on target_update_freq
CheckConfig ==
    /\ pc = "assert"
    /\ pc' = IF assert_holds(cfg) THEN "make_env" ELSE "AssertionError"
    /\ UNCHANGED <<cfg, env, made, q_model, q_model_targ, epoch, t, loc, step,
                   since_copy, logged, BufVars, EpsVars, TdVars>>

\* lines 60-74: seeds, logger, env = env_fn(), the action space check
MakeEnv ==
    /\ pc = "make_env"
    /\ env' = [env EXCEPT !.made = TRUE]
    /\ pc' = IF isinstance_Discrete(cfg) THEN "build" ELSE "NotImplementedError"
    /\ UNCHANGED <<cfg, made, q_model, q_model_targ, epoch, t, loc, step,
                   since_copy, logged, BufVars, EpsVars, TdVars>>

\* lines 76-101: the two networks are built, each with its own initial weights
BuildNetworks ==
    /\ pc = "build"
    /\ \E wm \in Weights, wt \in Weights :
          /\ q_model' = wm
          /\ q_model_targ' = wt
    /\ made' = [made EXCEPT !.nets = TRUE]
    /\ pc' = "copy_init"
    /\ UNCHANGED <<cfg, env, epoch, t, loc, step, since_copy, logged,
                   BufVars, EpsVars, TdVars>>

\* line 109: copy_network_weights()
InitialCopy ==
    /\ pc = "copy_init"
    /\ q_model_targ' = copy_network_weights(q_model, q_model_targ)
    /\ made' = [made EXCEPT !.inits = made.inits + 1]
    /\ pc' = "make_buf"
    /\ UNCHANGED <<cfg, env, q_model, epoch, t, loc, step, since_copy, logged,
                   BufVars, EpsVars, TdVars>>

\* lines 112-116: the buffer, the schedule, total_t = 0
MakeBuffer ==
    /\ pc = "make_buf"
    /\ buf' = DQNReplayBuffer(cfg.replay_size)
    /\ made' = [made EXCEPT !.buf = TRUE]
    /\ total_t' = 0
    /\ pc' = "epoch"
    /\ UNCHANGED <<cfg, env, q_model, q_model_targ, epoch, t, loc, step,
                   since_copy, logged, hist, ret, sched, eps, eps_prev, TdVars>>

\* lines 194-197 and 151-158: the next epoch begins; train_one_epoch resets
\* the environment and its locals
EpochStart ==
    /\ pc = "epoch"
    /\ epoch < cfg.epochs
    /\ env' = [env EXCEPT !.was_reset = TRUE, !.obs = 0]
    /\ loc' = [kind |-> "epoch", o |-> 0, ep_len |-> 0, ep_ret |-> 0,
               ep_loss |-> <<>>, epoch_ep_lens |-> <<>>, epoch_ep_rets |-> <<>>,
               epoch_ep_loss |-> <<>>, dones |-> 0, copies |-> 0]
    /\ t' = 0
    /\ pc' = "step"
    /\ UNCHANGED <<cfg, made, q_model, q_model_targ, epoch, step, since_copy,
                   logged, BufVars, EpsVars, TdVars>>

\* lines 159-188: one iteration of the loop of train_one_epoch
Step ==
    /\ pc = "step"
    /\ \E a \in Actions, r \in EnvRewards, dn \in BOOLEAN :
        LET index   == schedule_index(t, total_t)
            eps_now == eps_at(cfg.epsilon, cfg.start_steps, index)
            o_prime == env.obs + 1
            d       == IF dn THEN 1 ELSE 0
            buf1    == store(buf, loc.o, a, r, o_prime, d)
        IN
        /\ eps' = eps_now
        /\ eps_prev' = eps
        /\ IF buf1.size = 0 /\ cfg.batch_size > 0
           THEN \* update: buf.sample raises out of dqn()
                /\ ret' = [kind |-> "ValueError", n |-> cfg.batch_size]
                /\ buf' = buf1
                /\ env' = [env EXCEPT !.was_stepped = TRUE, !.obs = o_prime,
                                      !.steps = env.steps + 1]
                /\ pc' = "ValueError"
                /\ UNCHANGED <<q_model, q_model_targ, since_copy, step, t,
                               total_t, loc>>
           ELSE \E w \in Weights, batch_loss \in Losses,
                   idxs \in sample_idxs(buf1, cfg.batch_size) :
                LET trained == q_train_fn(q_model, q_model_targ, w)
                    copy    == should_copy(t, cfg)
                    ep_len1 == loc.ep_len + 1
                    ep_ret1 == loc.ep_ret + r
                    loss1   == Append(loc.ep_loss, batch_loss)
                    t1      == t + 1
                    lens1   == IF dn THEN Append(loc.epoch_ep_lens, ep_len1)
                               ELSE loc.epoch_ep_lens
                    ep_len2 == IF dn THEN 0 ELSE ep_len1
                    over    == budget_exhausted(t1, cfg)
                IN
                /\ ret' = [kind |-> "batch", n |-> cfg.batch_size, idxs |-> idxs,
                           batch |-> sample_batch(buf1, idxs)]
                /\ buf' = sample_self(buf1, idxs)
                /\ env' = [env EXCEPT !.was_stepped = TRUE,
                                      !.was_reset = TRUE,
                                      !.obs = IF dn THEN 0 ELSE o_prime,
                                      !.steps = env.steps + 1]
                /\ q_model' = trained.main
                /\ q_model_targ' = IF copy
                                   THEN copy_network_weights(trained.main, trained.targ)
                                   ELSE trained.targ
                /\ since_copy' = IF copy THEN 0
                                  ELSE IF since_copy >= 0 THEN since_copy + 1 ELSE -1
                /\ step' = [kind |-> "step", t |-> t, idx |-> index,
                            env_steps |-> env.steps, o |-> loc.o, a |-> a, r |-> r,
                            o_prime |-> o_prime, d |-> d, eps |-> eps_now,
                            stored |-> Row(buf1, buf.ptr),
                            size_before |-> buf.size,
                            sampled_size |-> buf1.size, copied |-> copy,
                            gap |-> IF since_copy >= 0 THEN since_copy + 1 ELSE 0,
                            targ_before |-> q_model_targ,
                            ntwk_diff |-> IF copy /\ t = cfg.epoch_steps - 1
                                          THEN network_diff(trained.main, trained.targ)
                                          ELSE -1]
                /\ t' = t1
                /\ total_t' = total_t + 1
                /\ loc' = [kind |-> "epoch",
                           o |-> IF dn THEN 0 ELSE o_prime,
                           ep_len |-> ep_len2,
                           ep_ret |-> IF dn THEN 0 ELSE ep_ret1,
                           ep_loss |-> IF dn THEN <<>> ELSE loss1,
                           epoch_ep_lens |-> IF over THEN epoch_end_lens(lens1, ep_len2)
                                             ELSE lens1,
                           epoch_ep_rets |-> IF dn THEN Append(loc.epoch_ep_rets, ep_ret1)
                                             ELSE loc.epoch_ep_rets,
                           epoch_ep_loss |-> IF dn THEN Append(loc.epoch_ep_loss, mean(loss1))
                                             ELSE loc.epoch_ep_loss,
                           dones |-> loc.dones + d,
                           copies |-> loc.copies + (IF copy THEN 1 ELSE 0)]
                /\ pc' = IF over THEN "log" ELSE "step"
    /\ UNCHANGED <<cfg, made, epoch, logged, hist, sched, TdVars>>

\* lines 198-210: the epoch's results are handed to the logger
EpochLog ==
    /\ pc = "log"
    /\ logged' = [kind |-> "row", epoch |-> epoch,
                  q_loss |-> mean_of_means(loc.epoch_ep_loss),
                  avg_return |-> mean(loc.epoch_ep_rets),
                  avg_ep_lens |-> mean(loc.epoch_ep_lens),
                  episodes |-> Len(loc.epoch_ep_lens),
                  total_steps |-> Sum(loc.epoch_ep_lens),
                  end_epsilon |-> eps_at(cfg.epsilon, cfg.start_steps, total_t),
                  ntwk_diff |-> step.ntwk_diff]
    /\ pc' = "dump"
    /\ UNCHANGED <<cfg, env, made, q_model, q_model_targ, epoch, t, loc, step,
                   since_copy, BufVars, EpsVars, TdVars>>

\* line 212: logger.dump_tabular(); the loop goes on to the next i
Dump ==
    /\ pc = "dump"
    /\ logged' = None
    /\ loc' = NoLoc
    /\ epoch' = epoch + 1
    /\ pc' = "epoch"
    /\ UNCHANGED <<cfg, env, made, q_model, q_model_targ, t, step, since_copy,
                   BufVars, EpsVars, TdVars>>

\* the loop over the epochs is exhausted
Finish ==
    /\ pc = "epoch"
    /\ epoch = cfg.epochs
    /\ pc' = "done"
    /\ UNCHANGED <<cfg, env, made, q_model, q_model_targ, epoch, t, loc, step,
                   since_copy, logged, BufVars, EpsVars, TdVars>>

Next ==
    \/ CheckConfig
    \/ MakeEnv
    \/ BuildNetworks
    \/ InitialCopy
    \/ MakeBuffer
    \/ EpochStart
    \/ Step
    \/ EpochLog
    \/ Dump
    \/ Finish

Spec == InitTrain /\ [][Next]_vars

\* dqn() runs on its own thread of control: whenever it has a next statement
\* it executes it (the environment's step and reset are assumed to return)
SpecFair == Spec /\ WF_vars(Next)

(***************************************************************************)
(* The legacy trainer dqn() of src/rlalgs/dqn/dqn.py: one loop per         *)
(* episode inside the loop over the epoch's steps, get_action counting     *)
(* total_t itself, and a target network moved towards the main one every   *)
(* OldTargetPeriod steps of an epoch.  The environment, the action, the    *)
(* loss and the optimizer are as for the trainer above; the target weights *)
(* are rationals.                                                          *)
(***************************************************************************)
OldTargetPeriod == 1000    \* update: t % 1000
OldPolyakNum    == 995     \* polyak = 0.0995 = OldPolyakNum / OldPolyakDen
OldPolyakDen    == 10000

\* target_init: v_targ.assign(v_main) for every pair of variables
target_init(main) == [p \in Params |-> Rat(main[p], 1)]

\* target_update: v_targ.assign(polyak*v_targ + (1-polyak)*v_main)
target_update(main, targ) ==
    [p \in Params |->
        Rat(OldPolyakNum * targ[p][1]
              + (OldPolyakDen - OldPolyakNum) * main[p] * targ[p][2],
            OldPolyakDen * targ[p][2])]

\* update: if t > 0 and t % 1000 == 0
old_should_update(tt) == tt > 0 /\ tt % OldTargetPeriod = 0

InitOld ==
    /\ \E es \in 1..MaxEpochSteps, disc \in BOOLEAN :
          cfg = [epoch_steps |-> es, epochs |-> Epochs, discrete |-> disc,
                 replay_size |-> Profile.replay_size,
                 batch_size |-> Profile.batch_size,
                 start_steps |-> Profile.start_steps,
                 epsilon |-> Profile.epsilon]
    /\ pc = "old_setup"
    /\ env = [made |-> FALSE, was_reset |-> FALSE, was_stepped |-> FALSE, obs |-> 0,
              steps |-> 0]
    /\ made = [nets |-> FALSE, buf |-> FALSE, inits |-> 0]
    /\ q_model = NoWeights
    /\ q_model_targ = target_init(NoWeights)
    /\ epoch = 0
    /\ t = 0
    /\ loc = NoLoc
    /\ step = NoStep
    /\ since_copy = -1
    /\ logged = None
    /\ BufIdle
    /\ sched = [start_steps |-> Profile.start_steps, epsilon |-> Profile.epsilon]
    /\ total_t = 0
    /\ eps = None
    /\ eps_prev = None
    /\ TdIdle

\* lines 93-145: the environment and its check, the networks, target_init,
\* the buffer, total_t = 0
OldSetUp ==
    /\ pc = "old_setup"
    /\ env' = [env EXCEPT !.made = TRUE]
    /\ IF isinstance_Discrete(cfg)
       THEN /\ \E wm \in Weights :
                  /\ q_model' = wm
                  /\ q_model_targ' = target_init(wm)
            /\ made' = [nets |-> TRUE, buf |-> TRUE, inits |-> 1]
            /\ buf' = DQNReplayBuffer(cfg.replay_size)
            /\ total_t' = 0
            /\ pc' = "old_epoch"
       ELSE /\ pc' = "NotImplementedError"
            /\ UNCHANGED <<q_model, q_model_targ, made, buf, total_t>>
    /\ UNCHANGED <<cfg, epoch, t, loc, step, since_copy, logged, hist, ret,
                   sched, eps, eps_prev, TdVars>>

\* lines 216-218 and 183-187: the next epoch begins
OldEpochStart ==
    /\ pc = "old_epoch"
    /\ epoch < cfg.epochs
    /\ loc' = [kind |-> "epoch", o |-> 0, d |-> FALSE, ep_len |-> 0, ep_ret |-> 0,
               ep_loss |-> <<>>, epoch_ep_lens |-> <<>>, epoch_ep_rets |-> <<>>,
               epoch_ep_loss |-> <<>>, dones |-> 0]
    /\ t' = 0
    /\ pc' = "old_while"
    /\ UNCHANGED <<cfg, env, made, q_model, q_model_targ, epoch, step, since_copy,
                   logged, BufVars, EpsVars, TdVars>>

\* lines 188-194: while t < epoch_steps: the next episode begins
OldEpisodeStart ==
    /\ pc = "old_while"
    /\ t < cfg.epoch_steps
    /\ env' = [env EXCEPT !.was_reset = TRUE, !.obs = 0]
    /\ loc' = [loc EXCEPT !.o = 0, !.d = FALSE, !.ep_len = 0, !.ep_ret = 0,
                          !.ep_loss = <<>>]
    /\ pc' = "old_inner"
    /\ UNCHANGED <<cfg, made, q_model, q_model_targ, epoch, t, step, since_copy,
                   logged, BufVars, EpsVars, TdVars>>

\* lines 196-207: one iteration of "while not d"
OldStep ==
    /\ pc = "old_inner"
    /\ ~loc.d
    /\ \E a \in Actions, r \in EnvRewards, dn \in BOOLEAN :
        LET eps_now == eps_at(cfg.epsilon, cfg.start_steps, total_t)
            o_prime == env.obs + 1
            d       == IF dn THEN 1 ELSE 0
            buf1    == store(buf, loc.o, a, r, o_prime, d)
            ep_len1 == loc.ep_len + 1
            ep_ret1 == loc.ep_ret + r
        IN
        \* get_action: eps from total_t, then total_t += 1
        /\ eps' = eps_now
        /\ eps_prev' = eps
        /\ total_t' = total_t + 1
        /\ env' = [env EXCEPT !.was_stepped = TRUE, !.obs = o_prime,
                              !.steps = env.steps + 1]
        /\ IF buf1.size = 0 /\ cfg.batch_size > 0
           THEN \* update: buf.sample raises out of dqn()
                /\ ret' = [kind |-> "ValueError", n |-> cfg.batch_size]
                /\ buf' = buf1
                /\ loc' = [loc EXCEPT !.o = o_prime, !.d = dn, !.ep_len = ep_len1,
                                      !.ep_ret = ep_ret1]
                /\ pc' = "ValueError"
                /\ UNCHANGED <<q_model, q_model_targ, step, t>>
           ELSE \E w \in Weights, batch_loss \in Losses,
                   idxs \in sample_idxs(buf1, cfg.batch_size) :
                LET copy == old_should_update(t)
                    t1   == t + 1
                IN
                /\ ret' = [kind |-> "batch", n |-> cfg.batch_size, idxs |-> idxs,
                           batch |-> sample_batch(buf1, idxs)]
                /\ buf' = sample_self(buf1, idxs)
                /\ q_model' = w
                /\ q_model_targ' = IF copy THEN target_update(w, q_model_targ)
                                   ELSE q_model_targ
                /\ step' = [kind |-> "step", t |-> t, idx |-> total_t,
                            env_steps |-> env.steps, o |-> loc.o, a |-> a, r |-> r,
                            o_prime |-> o_prime, d |-> d, eps |-> eps_now,
                            stored |-> Row(buf1, buf.ptr),
                            size_before |-> buf.size,
                            sampled_size |-> buf1.size, copied |-> copy]
                /\ t' = t1
                /\ loc' = [loc EXCEPT !.o = o_prime, !.d = dn, !.ep_len = ep_len1,
                                      !.ep_ret = ep_ret1,
                                      !.ep_loss = Append(loc.ep_loss, batch_loss),
                                      !.dones = loc.dones + d]
                /\ pc' = IF budget_exhausted(t1, cfg) \/ dn THEN "old_episode_end"
                         ELSE "old_inner"
    /\ UNCHANGED <<cfg, made, epoch, since_copy, logged, hist, sched, TdVars>>

\* lines 209-212: after the inner loop, ended by d or by the break
OldEpisodeEnd ==
    /\ pc = "old_episode_end"
    /\ loc' = [loc EXCEPT !.epoch_ep_lens = Append(loc.epoch_ep_lens, loc.ep_len),
                          !.epoch_ep_rets = Append(loc.epoch_ep_rets, loc.ep_ret),
                          !.epoch_ep_loss = Append(loc.epoch_ep_loss, mean(loc.ep_loss))]
    /\ pc' = "old_while"
    /\ UNCHANGED <<cfg, env, made, q_model, q_model_targ, epoch, t, step, since_copy,
                   logged, BufVars, EpsVars, TdVars>>

\* lines 214 and 219-225: train_one_epoch returns; its results go to the logger
OldEpochLog ==
    /\ pc = "old_while"
    /\ ~(t < cfg.epoch_steps)
    /\ logged' = [kind |-> "row", epoch |-> epoch,
                  pi_loss |-> mean_of_means(loc.epoch_ep_loss),
                  avg_return |-> mean(loc.epoch_ep_rets),
                  avg_ep_lens |-> mean(loc.epoch_ep_lens),
                  total_steps |-> Sum(loc.epoch_ep_lens)]
    /\ pc' = "old_dump"
    /\ UNCHANGED <<cfg, env, made, q_model, q_model_targ, epoch, t, loc, step,
                   since_copy, BufVars, EpsVars, TdVars>>

\* line 226: logger.dump_tabular(); the loop goes on to the next i
OldDump ==
    /\ pc = "old_dump"
    /\ logged' = None
    /\ loc' = NoLoc
    /\ epoch' = epoch + 1
    /\ pc' = "old_epoch"
    /\ UNCHANGED <<cfg, env, made, q_model, q_model_targ, t, step, since_copy,
                   BufVars, EpsVars, TdVars>>

\* the loop over the epochs is exhausted (render_last is off)
OldFinish ==
    /\ pc = "old_epoch"
    /\ epoch = cfg.epochs
    /\ pc' = "done"
    /\ UNCHANGED <<cfg, env, made, q_model, q_model_targ, epoch, t, loc, step,
                   since_copy, logged, BufVars, EpsVars, TdVars>>

NextOld ==
    \/ OldSetUp
    \/ OldEpochStart
    \/ OldEpisodeStart
    \/ OldStep
    \/ OldEpisodeEnd
    \/ OldEpochLog
    \/ OldDump
    \/ OldFinish

SpecOld == InitOld /\ [][NextOld]_vars

(***************************************************************************)
(* Two calls of dqn() (src/rlalgs/algos/dqn/dqn.py) running in one process *)
(* on two threads, with the same arguments.  Everything a call creates is  *)
(* local to it (environment, networks, buffer, t, the closures) and is     *)
(* modelled above; here each call keeps only what meets the step counter:  *)
(* its position, its environment, epoch and t.  total_t is the one         *)
(* module-level name both calls declare global.  pc, env, epoch, t, loc    *)
(* and step are functions of the instance.  "total_t += 1" is a load and a *)
(* store, and the other thread may run between them.                       *)
(***************************************************************************)
TwoEpochSteps == 2    \* epoch_steps of both calls

Instances == {1, 2}

InitTwo ==
    /\ cfg = [epoch_steps |-> TwoEpochSteps, epochs |-> Epochs,
              start_steps |-> Profile.start_steps, epsilon |-> Profile.epsilon]
    /\ pc = [i \in Instances |-> "two_setup"]
    /\ env = [i \in Instances |-> [obs |-> 0, steps |-> 0]]
    /\ epoch = [i \in Instances |-> 0]
    /\ t = [i \in Instances |-> 0]
    /\ loc = [i \in Instances |-> [o |-> 0, loaded |-> 0]]
    /\ step = [i \in Instances |-> NoStep]
    /\ total_t = 0
    /\ made = None /\ q_model = None /\ q_model_targ = None
    /\ since_copy = -1 /\ logged = None
    /\ BufIdle
    /\ sched = [start_steps |-> Profile.start_steps, epsilon |-> Profile.epsilon]
    /\ eps = None /\ eps_prev = None
    /\ TdIdle

\* lines 57-116: the set-up of one call, which ends with
\* "global total_t; total_t = 0"
TwoSetUp(i) ==
    /\ pc[i] = "two_setup"
    /\ total_t' = 0
    /\ pc' = [pc EXCEPT ![i] = "two_epoch"]
    /\ UNCHANGED <<cfg, env, epoch, t, loc, step, made, q_model, q_model_targ,
                   since_copy, logged, BufVars, sched, eps, eps_prev, TdVars>>

\* lines 194-197 and 151-158: the call's next epoch begins
TwoEpochStart(i) ==
    /\ pc[i] = "two_epoch"
    /\ epoch[i] < cfg.epochs
    /\ env' = [env EXCEPT ![i].obs = 0]
    /\ loc' = [loc EXCEPT ![i].o = 0]
    /\ t' = [t EXCEPT ![i] = 0]
    /\ pc' = [pc EXCEPT ![i] = "two_select"]
    /\ UNCHANGED <<cfg, epoch, step, total_t, made, q_model, q_model_targ,
                   since_copy, logged, BufVars, sched, eps, eps_prev, TdVars>>

\* lines 163-171: get_action(o, total_t) reads the global; env.step, store and
\* update follow, then ep_len += 1, ep_ret += r, t += 1
TwoSelect(i) ==
    /\ pc[i] = "two_select"
    /\ \E dn \in BOOLEAN :
        LET index   == schedule_index(t[i], total_t)
            o_prime == env[i].obs + 1
        IN
        /\ step' = [step EXCEPT ![i] =
                       [kind |-> "step", t |-> t[i], idx |-> index,
                        env_steps |-> env[i].steps, o |-> loc[i].o,
                        o_prime |-> o_prime, d |-> IF dn THEN 1 ELSE 0,
                        eps |-> eps_at(cfg.epsilon, cfg.start_steps, index)]]
        /\ env' = [env EXCEPT ![i].obs = o_prime, ![i].steps = env[i].steps + 1]
    /\ t' = [t EXCEPT ![i] = t[i] + 1]
    /\ pc' = [pc EXCEPT ![i] = "two_load"]
    /\ UNCHANGED <<cfg, epoch, loc, total_t, made, q_model, q_model_targ,
                   since_copy, logged, BufVars, sched, eps, eps_prev, TdVars>>

\* line 172, total_t += 1: the global is loaded
TwoLoad(i) ==
    /\ pc[i] = "two_load"
    /\ loc' = [loc EXCEPT ![i].loaded = total_t]
    /\ pc' = [pc EXCEPT ![i] = "two_store"]
    /\ UNCHANGED <<cfg, env, epoch, t, step, total_t, made, q_model, q_model_targ,
                   since_copy, logged, BufVars, sched, eps, eps_prev, TdVars>>

\* line 172, total_t += 1: the sum is stored; lines 173-188: o = o_prime, the
\* reset on d, the test of the budget
TwoCount(i) ==
    /\ pc[i] = "two_store"
    /\ total_t' = loc[i].loaded + 1
    /\ loc' = [loc EXCEPT ![i].o = IF step[i].d = 1 THEN 0 ELSE step[i].o_prime]
    /\ env' = [env EXCEPT ![i].obs = IF step[i].d = 1 THEN 0 ELSE env[i].obs]
    /\ pc' = [pc EXCEPT ![i] = IF budget_exhausted(t[i], cfg) THEN "two_log"
                                ELSE "two_select"]
    /\ UNCHANGED <<cfg, epoch, t, step, made, q_model, q_model_targ,
                   since_copy, logged, BufVars, sched, eps, eps_prev, TdVars>>

\* lines 198-212: the epoch's row is logged and dumped (end_epsilon reads
\* total_t); the loop goes on to the next i
TwoEpochLog(i) ==
    /\ pc[i] = "two_log"
    /\ epoch' = [epoch EXCEPT ![i] = epoch[i] + 1]
    /\ pc' = [pc EXCEPT ![i] = "two_epoch"]
    /\ UNCHANGED <<cfg, env, t, loc, step, total_t, made, q_model, q_model_targ,
                   since_copy, logged, BufVars, sched, eps, eps_prev, TdVars>>

\* the call's loop over the epochs is exhausted
TwoFinish(i) ==
    /\ pc[i] = "two_epoch"
    /\ epoch[i] = cfg.epochs
    /\ pc' = [pc EXCEPT ![i] = "done"]
    /\ UNCHANGED <<cfg, env, epoch, t, loc, step, total_t, made, q_model,
                   q_model_targ, since_copy, logged, BufVars, sched, eps, eps_prev,
                   TdVars>>

NextTwo ==
    \/ \E i \in Instances : TwoSetUp(i)
    \/ \E i \in Instances : TwoEpochStart(i)
    \/ \E i \in Instances : TwoSelect(i)
    \/ \E i \in Instances : TwoLoad(i)
    \/ \E i \in Instances : TwoCount(i)
    \/ \E i \in Instances : TwoEpochLog(i)
    \/ \E i \in Instances : TwoFinish(i)

SpecTwo == InitTwo /\ [][NextTwo]_vars

(***************************************************************************)
(* Claims about the buffer, checked under SpecBuf.                         *)
(***************************************************************************)
\* the transitions stored by the last Min(k, capacity) of the k store calls
Recent(h, capacity) ==
    {h[j] : j \in (Len(h) - Min(Len(h), capacity) + 1)..Len(h)}

\* the transitions held in the written slots
Held(b) == {Row(b, i) : i \in 0..(b.size - 1)}

C1_Recent ==
    /\ Held(buf) = Recent(hist, buf.capacity)
    /\ Cardinality(Held(buf)) = Min(Len(hist), buf.capacity)

C1_Overwrite ==
    (buf.size = buf.capacity /\ hist' # hist) =>
        /\ Row(buf, buf.ptr) = hist[Len(hist) - buf.capacity + 1]
        /\ Row(buf', buf.ptr) = hist'[Len(hist')]
        /\ \A i \in 0..(buf.capacity - 1) :
               i # buf.ptr => Row(buf', i) = Row(buf, i)

\* C1: after k stores on a fresh buffer of capacity C the written slots hold
\* exactly the Min(k, C) most recently stored transitions, and a store on a
\* full buffer replaces the oldest stored transition and changes no other slot.
C1_MostRecentKept == []C1_Recent /\ [][C1_Overwrite]_vars

\* a buffer of capacity >= 2 that has wrapped around
C1_Witness ==
    /\ buf.capacity >= 2
    /\ Len(hist) > buf.capacity
    /\ buf.size = buf.capacity

\* C2: after k stores on a fresh buffer of capacity C, ptr = k mod C and
\* size = Min(k, C); so 0 <= ptr < C and 0 <= size <= C in every state.
C2_PtrAndSize ==
    /\ buf.ptr = Len(hist) % buf.capacity
    /\ buf.size = Min(Len(hist), buf.capacity)
    /\ 0 <= buf.ptr /\ buf.ptr < buf.capacity
    /\ 0 <= buf.size /\ buf.size <= buf.capacity

\* capacity 4, six stores with rewards 1..6: rewards {3,4,5,6}, ptr 2, size 4
C2_Witness ==
    /\ buf.capacity = 4
    /\ Len(hist) = 6
    /\ {buf.rew_buf[i] : i \in 0..3} = {3, 4, 5, 6}
    /\ buf.ptr = 2
    /\ buf.size = 4

\* C3: on a buffer with size >= 1, sample(n) returns n rows, every sampled
\* index is in [0, size), and every row is a transition the buffer holds.
C3_SampleFromStored ==
    (ret.kind = "batch" /\ buf.size >= 1) =>
        /\ Len(ret.idxs) = ret.n
        /\ \A f \in {"o", "a", "r", "o_prime", "d"} : Len(ret.batch[f]) = ret.n
        /\ \A k \in 1..ret.n :
               /\ ret.idxs[k] \in 0..(buf.size - 1)
               /\ BatchRow(ret.batch, k) \in Recent(hist, buf.capacity)

\* a batch of two rows with a duplicate, drawn while slots are still unwritten
C3_Witness ==
    /\ ret.kind = "batch"
    /\ ret.n = 2
    /\ ret.idxs[1] = ret.idxs[2]
    /\ buf.size >= 1
    /\ buf.size < buf.capacity

(***************************************************************************)
(* Claims about the exploration schedule, checked under SpecEps.           *)
(***************************************************************************)
\* the step index the last get_action call was made with
LastT == total_t - 1

\* 1 + (epsilon - 1) * m / n
Ramp(epsilon, m, n) ==
    Rat(epsilon[2] * n + (epsilon[1] - epsilon[2]) * m, epsilon[2] * n)

\* C4 as stated: for start_steps > 0 the epsilon used at total_t is
\* 1 + (epsilon_min - 1) * min(total_t, start_steps) / start_steps.
C4_AsStated ==
    (eps # None /\ sched.start_steps > 0) =>
        RatEq(eps, Ramp(sched.epsilon, Min(LastT, sched.start_steps),
                        sched.start_steps))

\* C4 amended: the ramp is divided into start_steps - 1 intervals.  For
\* start_steps >= 2 the epsilon used at total_t is
\* 1 + (epsilon_min - 1) * min(total_t, start_steps - 1) / (start_steps - 1);
\* for start_steps = 1 it is 1 at step 0 and epsilon_min afterwards.
C4_EpsilonFormula ==
    (eps # None /\ sched.start_steps > 0) =>
        IF sched.start_steps = 1
        THEN RatEq(eps, IF LastT = 0 THEN One ELSE sched.epsilon)
        ELSE RatEq(eps, Ramp(sched.epsilon, Min(LastT, sched.start_steps - 1),
                             sched.start_steps - 1))

\* a step strictly inside the ramp of a schedule that really anneals
C4_Witness ==
    /\ eps # None
    /\ sched.start_steps >= 3
    /\ LastT >= 1 /\ LastT < sched.start_steps - 1
    /\ RatLt(sched.epsilon, eps) /\ RatLt(eps, One)

\* C5: for start_steps > 0 and epsilon_min <= 1 the schedule is non-increasing
\* in total_t, is 1 at step 0, is epsilon_min at every step >= start_steps,
\* and stays within [epsilon_min, 1].
C5_Schedule ==
    (eps # None /\ sched.start_steps > 0 /\ RatLe(sched.epsilon, One)) =>
        /\ eps_prev # None => RatLe(eps, eps_prev)
        /\ LastT = 0 => RatEq(eps, One)
        /\ LastT >= sched.start_steps => RatEq(eps, sched.epsilon)
        /\ RatLe(sched.epsilon, eps) /\ RatLe(eps, One)

\* past the end of a ramp that fell: epsilon_min now, more before
C5_Witness ==
    /\ eps # None /\ eps_prev # None
    /\ sched.start_steps >= 2
    /\ LastT >= sched.start_steps + 1
    /\ RatLt(sched.epsilon, One)
    /\ RatEq(eps, sched.epsilon)

(***************************************************************************)
(* Claim about the TD target, checked under SpecTD.                        *)
(***************************************************************************)
\* some action attains v and no action's Q-value exceeds it
IsMaxQ(q_vals, v) ==
    /\ \E a \in Actions : q_vals[a] = v
    /\ \A a \in Actions : q_vals[a] <= v

\* C10: for every sampled transition the TD target is
\* reward + gamma * (1 - done) * max_a' Q_target(next_observation, a'); for
\* done = true it is the reward exactly, whatever the target Q-values are.
C10_TDTarget ==
    td.kind = "evaluated" =>
        /\ Len(td.target) = Len(td.rew)
        /\ \A k \in 1..Len(td.rew) :
            /\ \E v \in QVals :
                /\ IsMaxQ(td.q_vals_targ[k], v)
                /\ td.target[k][1] * GammaDen
                     = td.target[k][2] * (td.rew[k] * GammaDen
                                          + td.gamma[1] * (1 - td.done[k]) * v)
            /\ td.done[k] = 1 => RatEq(td.target[k], Rat(td.rew[k], 1))

\* a batch with a terminal row whose bootstrap term would not vanish by itself
\* and a non-terminal row whose target differs from its reward
C10_Witness ==
    /\ td.kind = "evaluated"
    /\ Len(td.rew) = 2
    /\ td.gamma[1] > 0
    /\ td.done[1] = 1 /\ q_pi(td.q_vals_targ[1]) # 0
    /\ td.done[2] = 0 /\ ~RatEq(td.target[2], Rat(td.rew[2], 1))

(***************************************************************************)
(* Claims about the trainer, checked under Spec.                           *)
(***************************************************************************)
\* C6 as stated: with polyak = 0 the update copies main to target exactly once
\* every target_update_freq training steps: once update has copied, a later
\* step copies if and only if it is the target_update_freq-th since that copy.
\* (step.gap counts the update calls since the previous copy, this one included.)
C6_HardCopyPeriod ==
    (step.kind = "step" /\ cfg.polyak[1] = 0 /\ step.gap > 0) =>
        (step.copied <=> step.gap = cfg.target_update_freq)

\* C7 as stated: with polyak > 0 a target update leaves every target parameter
\* at polyak * old_target + (1 - polyak) * main; only polyak = 0 overwrites.
C7_PolyakSelectsPolicy ==
    (step.kind = "step" /\ step.copied) =>
        IF cfg.polyak[1] > 0
        THEN \A p \in Params :
                q_model_targ[p] * cfg.polyak[2]
                  = cfg.polyak[1] * step.targ_before[p]
                    + (cfg.polyak[2] - cfg.polyak[1]) * q_model[p]
        ELSE q_model_targ = q_model

\* C8: with target_update_freq > epoch_steps dqn() fails on its assert before
\* the environment is created, reset or stepped and before anything is stored;
\* with target_update_freq <= epoch_steps the assert does not fail.
C8_FreqCheckedFirst ==
    /\ pc = "AssertionError" =>
          /\ cfg.target_update_freq > cfg.epoch_steps
          /\ ~env.made /\ ~env.was_reset /\ ~env.was_stepped
          /\ ~made.buf /\ buf.size = 0
    /\ cfg.target_update_freq > cfg.epoch_steps => pc \in {"assert", "AssertionError"}
    /\ cfg.target_update_freq <= cfg.epoch_steps => pc # "AssertionError"

\* the run stopped by the assert, with a frequency just over the epoch length
C8_Witness ==
    /\ pc = "AssertionError"
    /\ cfg.target_update_freq = cfg.epoch_steps + 1

\* C9: with a non-discrete action space dqn() fails at set-up, before any
\* environment reset or step, before the replay buffer is created and before
\* any network update.
C9_DiscreteOnly ==
    /\ pc = "NotImplementedError" =>
          /\ ~cfg.discrete
          /\ ~env.was_reset /\ ~env.was_stepped
          /\ ~made.buf /\ buf.size = 0
          /\ ~made.nets /\ step.kind = "none"
    /\ ~cfg.discrete =>
          pc \in {"assert", "AssertionError", "make_env", "NotImplementedError"}

\* the run stopped by the action space check, the environment just created
C9_Witness ==
    /\ pc = "NotImplementedError"
    /\ env.made
    /\ cfg.target_update_freq <= cfg.epoch_steps

\* C11: every call of sample made by the training loop finds size >= 1: the
\* loop stores the step's transition before update samples, so sample never
\* raises on an empty buffer and every index it draws is of a written slot.
C11_SampleAfterStore ==
    /\ pc # "ValueError"
    /\ ret.kind # "ValueError"
    /\ step.kind = "step" => step.sampled_size >= 1
    /\ ret.kind = "batch" =>
          /\ buf.size >= 1
          /\ \A k \in 1..ret.n : ret.idxs[k] \in 0..(buf.size - 1)

\* the first iteration of the run: the buffer was empty before its store
C11_Witness ==
    /\ step.kind = "step"
    /\ step.env_steps = 0
    /\ step.sampled_size = 1
    /\ ret.kind = "batch" /\ ret.n = 1

\* C12: the initial copy of the main weights into the target network runs
\* exactly once, before the first training step; immediately after it, and up
\* to the first training step, the target weights equal the main weights and
\* network_diff is 0.
C12_TargetInitOnce ==
    /\ made.inits \in {0, 1}
    /\ pc \in {"assert", "make_env", "build", "copy_init", "AssertionError",
               "NotImplementedError"} => made.inits = 0 /\ step.kind = "none"
    /\ pc \in {"make_buf", "epoch", "step", "log", "dump", "done"} => made.inits = 1
    /\ step.kind = "step" => made.inits = 1
    /\ (made.inits = 1 /\ step.kind = "none") =>
          /\ q_model_targ = q_model
          /\ network_diff(q_model, q_model_targ) = 0

\* just after the initial copy, of main weights that are not the all-zero ones
C12_Witness ==
    /\ pc = "make_buf"
    /\ made.inits = 1
    /\ q_model # NoWeights
    /\ q_model_targ = q_model

(***************************************************************************)
(* Claims about the trainer's loops.                                       *)
(***************************************************************************)
\* env.step has been called env.steps times: epoch_steps times in each epoch
\* that is over, t times in the one that is running
C13_Budget ==
    /\ pc = "step" => /\ t < cfg.epoch_steps
                      /\ env.steps = epoch * cfg.epoch_steps + t
    /\ pc \in {"log", "dump"} => /\ t = cfg.epoch_steps
                                 /\ env.steps = (epoch + 1) * cfg.epoch_steps
    /\ pc = "epoch" => env.steps = epoch * cfg.epoch_steps
    /\ epoch <= cfg.epochs
    /\ pc = "done" => /\ epoch = cfg.epochs
                      /\ env.steps = cfg.epochs * cfg.epoch_steps

\* C13: every epoch makes exactly epoch_steps environment steps and then
\* ends, and dqn() reaches the end of its epoch loop after exactly `epochs`
\* epochs, whatever the environment reports as done (never, on every step, or
\* anything between).
C13_EpochsTerminate ==
    /\ []C13_Budget
    /\ (pc = "epoch" /\ epoch = 0) ~> (pc = "done")

\* the end of the last epoch of a run whose environment did not report done
\* once in that epoch, with the largest step budget
C13_Witness ==
    /\ pc = "log"
    /\ epoch = cfg.epochs - 1
    /\ cfg.epoch_steps = MaxEpochSteps
    /\ loc.epoch_ep_rets = <<>>
    /\ env.steps = cfg.epochs * cfg.epoch_steps

\* what one statement of dqn() may do to the step counter: leave it, or count
\* one environment step
C14_Counts ==
    \/ total_t' = total_t /\ env'.steps = env.steps
    \/ /\ total_t' = total_t + 1
       /\ env'.steps = env.steps + 1
       /\ step'.idx = total_t

\* C14: the index handed to the schedule starts at 0, grows by exactly one
\* per environment step and is never reset or decreased, at a done or at the
\* start of an epoch: at every action selection it is the number of
\* environment steps made so far in the run.
C14_IndexIsStepCount ==
    /\ [](/\ total_t = env.steps
          /\ step.kind = "none" => total_t = 0
          /\ step.kind = "step" => step.idx = step.env_steps)
    /\ [][C14_Counts]_vars

\* the first action selection of the second epoch, after a done: t is 0 again,
\* the index is not
C14_Witness ==
    /\ step.kind = "step"
    /\ epoch = 1
    /\ step.t = 0
    /\ step.idx = cfg.epoch_steps
    /\ cfg.epoch_steps = MaxEpochSteps
    /\ buf.done_buf[buf.ptr] = 1

(***************************************************************************)
(* Frame of the buffer's operations, checked under SpecBuf.                *)
(***************************************************************************)
\* what one call may do to the buffer
C15_Frame ==
    \* a sample call, returning a batch or raising, changes nothing
    /\ ret'.kind \in {"batch", "ValueError"} => buf' = buf
    \* a change of the buffer is the work of a store call
    /\ buf' # buf => /\ Len(hist') = Len(hist) + 1
                     /\ buf' = store(buf, hist'[Len(hist')].o, hist'[Len(hist')].a,
                                     hist'[Len(hist')].r, hist'[Len(hist')].o_prime,
                                     hist'[Len(hist')].d)
    /\ buf'.size >= buf.size
    /\ buf'.capacity = buf.capacity

\* C15: sample(n) leaves ptr, size, capacity and the five arrays as they
\* were; store is the only operation that changes the buffer; size never
\* decreases over any sequence of store and sample calls.
C15_SampleChangesNothing == [][C15_Frame]_vars

\* a full batch just drawn from a buffer that is full and has wrapped around
C15_Witness ==
    /\ ret.kind = "batch"
    /\ ret.n = MaxBatch
    /\ buf.size = buf.capacity
    /\ Len(hist) > buf.capacity

(***************************************************************************)
(* The order of the statements of one loop iteration, read off what each   *)
(* statement was handed: step.o is the observation get_action chose for,   *)
(* step.stored the row store wrote, step.sampled_size the size sample      *)
(* found, and a copy made by update leaves the weights the optimizer left. *)
(***************************************************************************)
C16_Within ==
    step.kind = "step" =>
        \* env.step advanced the episode the action was chosen in
        /\ step.o_prime = step.o + 1
        \* store was handed that observation and the outcome of env.step
        /\ step.stored = Transition(step.o, step.a, step.r, step.o_prime, step.d)
        \* sample ran after store
        /\ step.sampled_size = Min(step.size_before + 1, buf.capacity)
        \* the copy ran after the optimizer's update
        /\ step.copied => q_model_targ = q_model

\* from one iteration to the next, as stated: the observation is the previous
\* next observation, or the reset observation (0) if done was reported
C16_NextObs ==
    (step.kind = "step" /\ step'.kind = "step" /\ env'.steps = env.steps + 1) =>
        step'.o = IF step.d = 1 THEN 0 ELSE step.o_prime

\* the same, with the reset train_one_epoch makes when it starts
C16_NextObsInEpoch ==
    (step.kind = "step" /\ step'.kind = "step" /\ env'.steps = env.steps + 1) =>
        step'.o = IF step.d = 1 \/ step'.t = 0 THEN 0 ELSE step.o_prime

\* C16 as stated: every iteration selects the action for the current
\* observation, steps the environment, stores (o, a, r, o_prime, d), samples
\* and updates the main network, then synchronizes the target; the next
\* iteration's observation is the previous o_prime, or the reset observation
\* if done was reported.
C16_AsStated == []C16_Within /\ [][C16_NextObs]_vars

\* C16, amended: as above, except that the first iteration of every epoch
\* starts from the reset observation, whether or not the last iteration of
\* the epoch before reported done.
C16_StepOrder == []C16_Within /\ [][C16_NextObsInEpoch]_vars

\* the first iteration of the second epoch, begun from the reset observation
\* although the iteration before it (the older row of the buffer) was not done
C16_Witness ==
    /\ step.kind = "step"
    /\ epoch = 1
    /\ step.t = 0
    /\ step.o = 0
    /\ step.stored.o = 0
    /\ buf.size = 2
    /\ buf.done_buf[buf.ptr] = 0
    /\ buf.obs_prime_buf[buf.ptr] > 0

(***************************************************************************)
(* What an epoch records.                                                  *)
(***************************************************************************)
\* C17: when an epoch ends the length of the episode in progress is appended
\* to the epoch's list of episode lengths, so the lengths recorded for the
\* epoch add up to epoch_steps, which is what the logger is given as
\* total_steps, whatever the pattern of done signals.
C17_LengthsSumToBudget ==
    /\ pc \in {"log", "dump"} =>
          /\ loc.epoch_ep_lens # <<>>
          /\ loc.epoch_ep_lens[Len(loc.epoch_ep_lens)] = loc.ep_len
          /\ Len(loc.epoch_ep_lens) = Len(loc.epoch_ep_rets) + 1
          /\ Sum(loc.epoch_ep_lens) = cfg.epoch_steps
    /\ logged.kind = "row" => logged.total_steps = cfg.epoch_steps

\* a logged epoch of the largest budget with one finished episode and one cut
\* off after at least one step
C17_Witness ==
    /\ logged.kind = "row"
    /\ cfg.epoch_steps = MaxEpochSteps
    /\ Len(loc.epoch_ep_lens) = 2
    /\ loc.ep_len > 0
    /\ logged.total_steps = MaxEpochSteps

\* C18 as stated: an episode's return and mean loss are recorded only when
\* the environment reports done: the epoch's lists of returns and of losses
\* never hold more entries than done was reported in the epoch (an episode
\* cut off by the step budget adds none), and the episode's accumulators are
\* zero right after a done and carry every step since otherwise.
C18_RecordedOnlyAtDone ==
    loc.kind = "epoch" =>
        /\ Len(loc.epoch_ep_rets) <= loc.dones
        /\ Len(loc.epoch_ep_loss) <= loc.dones
        /\ pc \in {"log", "dump", "old_while", "old_dump"} =>
              /\ Len(loc.epoch_ep_rets) = loc.dones
              /\ Len(loc.epoch_ep_loss) = loc.dones
        /\ (step.kind = "step" /\ t = step.t + 1
               /\ pc \in {"step", "log", "old_inner"}) =>
              IF step.d = 1
              THEN loc.ep_len = 0 /\ loc.ep_ret = 0 /\ loc.ep_loss = <<>>
              ELSE loc.ep_len > 0 /\ Len(loc.ep_loss) = loc.ep_len

(***************************************************************************)
(* Frame of the target network, checked under Spec.                        *)
(***************************************************************************)
\* what one statement of dqn() may do to the target weights
C19_Frame ==
    \* they change when the network is built, at the initial copy and in an
    \* update that copies, and nowhere else
    /\ q_model_targ' # q_model_targ =>
          \/ pc = "build"
          \/ pc = "copy_init"
          \/ pc = "step" /\ step'.kind = "step" /\ step'.copied
               /\ env'.steps = env.steps + 1
    \* an update that does not copy leaves them, whatever it does to the
    \* main weights
    /\ (pc = "step" /\ pc' \in {"step", "log"} /\ ~step'.copied) =>
          q_model_targ' = q_model_targ
    \* a copy gives them the main weights of that moment
    /\ pc = "copy_init" => q_model_targ' = q_model
    /\ (pc = "step" /\ pc' \in {"step", "log"} /\ step'.copied) =>
          q_model_targ' = q_model'

\* C19: the target weights change only at the initial copy and in the
\* updates that synchronize: an optimizer update of the main network leaves
\* them unchanged, so between two synchronizations they keep the value the
\* last one gave them.
C19_TargetChangesAtSyncOnly == [][C19_Frame]_vars

\* after an update that did not copy, some updates after one that did: the
\* main weights have moved on, the target weights are as they were
C19_Witness ==
    /\ step.kind = "step"
    /\ ~step.copied
    /\ since_copy >= 1
    /\ q_model # q_model_targ
    /\ q_model_targ = step.targ_before

(***************************************************************************)
(* Two calls of dqn() in one process, checked under SpecTwo.               *)
(***************************************************************************)
\* C20 as stated: two trainers whose steps are interleaved share no mutable
\* state: the index each hands to its schedule, and so its epsilon, is the
\* number of environment steps it has made itself, whatever the other has
\* done or is starting.
C20_OwnStepCounter ==
    \A i \in Instances :
        step[i].kind = "step" =>
            /\ step[i].idx = step[i].env_steps
            /\ step[i].eps = eps_at(cfg.epsilon, cfg.start_steps, step[i].env_steps)

(***************************************************************************)
(* Target synchronization per epoch, checked under Spec.                   *)
(***************************************************************************)
\* C21 as stated: in every run that passes the check target_update_freq <=
\* epoch_steps (target_update_freq = epoch_steps and epoch_steps = 1
\* included), update copies the main weights to the target network at least
\* once in every epoch: when an epoch ends, at least one of its updates has
\* copied.
C21_SyncedEveryEpoch ==
    (pc \in {"log", "dump"} /\ assert_holds(cfg)) => loc.copies >= 1

(***************************************************************************)
(* The episode lengths an epoch records, checked under Spec.               *)
(***************************************************************************)
\* the episodes that took at least one step in the epoch: one for every done,
\* and the one in progress at the end if it has made a step
C22_EpisodesWithSteps == loc.dones + (IF loc.ep_len > 0 THEN 1 ELSE 0)

\* C22 as stated: every episode length recorded for an epoch is >= 1, and the
\* number of episodes counted for the epoch is the number of episodes that
\* took at least one step in it: no zero-length episode is recorded when
\* done is reported on the epoch's last step.
C22_NoZeroLengthEpisode ==
    /\ pc \in {"log", "dump"} =>
          /\ \A k \in 1..Len(loc.epoch_ep_lens) : loc.epoch_ep_lens[k] >= 1
          /\ Len(loc.epoch_ep_lens) = C22_EpisodesWithSteps
    /\ logged.kind = "row" => logged.episodes = C22_EpisodesWithSteps

====
